---- MODULE Spec2Model ----
(***************************************************************************)
(* Repetition counter of the knee-flexion tracker: ExerciseTracker         *)
(* (exerciseTracker.py), the moving average of AngleCalculator (util.py)   *)
(* and the frame loop of ExerciseApp (main.py).                            *)
(*                                                                         *)
(* exerciseTracker.py:14 reads the undefined name __name_ when the module  *)
(* is imported; the model describes the classes as they are written, i.e.  *)
(* the behaviour of a tracker once the module has been loaded.             *)
(*                                                                         *)
(* Angles are whole degrees.  A mean of at most maxHistoryLength whole     *)
(* numbers is kept exactly, as a multiple of 1/Scale of a degree.          *)
(***************************************************************************)
EXTENDS Integers, Sequences, FiniteSets, TLC

\* config.py:51-52, ExerciseConfigs.CONFIGS[KNEE_FLEXION]
extendedThreshold == 170
flexedThreshold == 108

\* exerciseTracker.py:41
maxHistoryLength == 10

\* Bound of the model: the raw angle of the joint changes value at most
\* MaxRuns - 1 times (the samples fed form at most MaxRuns runs of equal
\* values); the number of frames is not bounded.
MaxRuns == 4

\* Raw angles a frame can produce: flexed, the two ends of the dead band,
\* extended.
Angles == {100, flexedThreshold + 1, extendedThreshold - 1, 175}

\* Unit of the fixed-point representation of a float: lcm(1..10).
Scale == 8 * 9 * 5 * 7

\* ExerciseState.stage: None, 'extended', 'flexed'
UNSET == "None"
Stages == {UNSET, "extended", "flexed"}

NoValue == "NoValue"

VARIABLES
    counter,        \* ExerciseState.counter
    stage,          \* ExerciseState.stage
    angleHistory,   \* ExerciseState.angleHistory
    currentAngle,   \* ExerciseState.currentAngle, in 1/Scale degrees
    frame,          \* the input of the last step (frame or key)
    calls,          \* tracker methods the last step invoked, in order
    ret,            \* what updateState returned in the last step
    stats,          \* what getStats returned in the last step
    display,        \* what getDisplayStage returned in the last step
    runs,           \* number of runs of equal raw samples fed so far
    extSinceInc,    \* history: a smoothed angle above extendedThreshold was
                    \* seen since the last increment of the counter
    extSinceReset,  \* history: a smoothed angle above extendedThreshold was
                    \* seen since construction or the last reset
    fed,            \* history: the raw samples passed to updateState since
                    \* construction or the last reset (SpecWindow only)
    scenario,       \* the phase of the scripted session (SpecScenario only)
    smooth,         \* a caller of smoothAngles and its list (SpecSmooth only)
    geom,           \* a call of calculateAngle (SpecGeom only)
    lmk,            \* a call of extractLandmarks (SpecLandmarks only)
    trackerConfig   \* ExerciseTracker.config: the thresholds of the tracker
                    \* (KNEE_FLEXION but in SpecConfig)

\* the variables of the other specifications, which the frame loop leaves
auxVars == <<fed, scenario, smooth, geom, lmk, trackerConfig>>

\* what the frame loop records about its last step
stepVars == <<frame, calls, ret, stats, display, runs, extSinceInc,
              extSinceReset>>

vars == <<counter, stage, angleHistory, currentAngle, frame, calls, ret,
          stats, display, runs, extSinceInc, extSinceReset,
          fed, scenario, smooth, geom, lmk, trackerConfig>>

Idle == [pc |-> "idle"]

\* ExerciseConfigs.CONFIGS[KNEE_FLEXION], config.py:48-56: its thresholds
KNEE_FLEXION ==
    [extendedThreshold |-> extendedThreshold,
     flexedThreshold |-> flexedThreshold]

----------------------------------------------------------------------------
\* Pure helpers

RECURSIVE SumSeq(_)
SumSeq(s) == IF s = <<>> THEN 0 ELSE Head(s) + SumSeq(Tail(s))

Range(s) == {s[i] : i \in 1..Len(s)}

\* the sum is divided by the capacity instead of the length
Mean_byCapacity(h) == (SumSeq(h) * Scale) \div maxHistoryLength

\* float(numpy.mean(angleHistory)) of a non-empty list, util.py:60
Mean(h) == (SumSeq(h) * Scale) \div Len(h)

\* a whole number of degrees as a float
Deg(a) == a * Scale

\* the newest sample is popped instead of the oldest
smoothAngles_popLast(angleHistory_, newAngle, maxHistory) ==
    LET appended == Append(angleHistory_, newAngle)
    IN  IF Len(appended) > maxHistory
          THEN SubSeq(appended, 1, Len(appended) - 1)
          ELSE appended

\* AngleCalculator.smoothAngles, util.py:43-60: the history after append and
\* pop(0); the value returned is Mean of it
smoothAngles(angleHistory_, newAngle, maxHistory) ==
    LET appended == Append(angleHistory_, newAngle)
    IN  IF Len(appended) > maxHistory THEN Tail(appended) ELSE appended

\* str.upper() on the stage names
Upper(s) ==
    CASE s = "extended" -> "EXTENDED"
      [] s = "flexed" -> "FLEXED"
      [] OTHER -> s

\* self.state of the tracker as one record
State == [counter |-> counter, stage |-> stage,
          angleHistory |-> angleHistory, currentAngle |-> currentAngle]

\* ExerciseState(), exerciseTracker.py:16-26
ExerciseState == [counter |-> 0, stage |-> UNSET,
                  angleHistory |-> <<>>, currentAngle |-> Deg(0)]

----------------------------------------------------------------------------
\* ExerciseTracker, as functions of the state record

\* Variants of updateState with one slip each
updateStateWith(st, angle, extOk(_, _), flexOk(_, _), step, flexedTo, retOf(_, _)) ==
    LET history == smoothAngles(st.angleHistory, angle, maxHistoryLength)
        smoothedAngle == Mean(history)
        previousCounter == st.counter
        s1 == [st EXCEPT !.angleHistory = history,
                         !.currentAngle = smoothedAngle]
        s2 == IF extOk(smoothedAngle, s1.stage)
                THEN [s1 EXCEPT !.stage = "extended"]
              ELSE IF flexOk(smoothedAngle, s1.stage)
                THEN [s1 EXCEPT !.stage = flexedTo, !.counter = @ + step]
              ELSE s1
    IN  [state |-> s2, ret |-> retOf(s2, previousCounter)]

ExtOk(sm, stg) == sm > Deg(extendedThreshold)
FlexOk(sm, stg) == sm < Deg(flexedThreshold) /\ stg = "extended"
RetOk(s2, prev) == s2.counter > prev

\* the increment sits in the wrong branch
updateState_incOnExtended(st, angle) ==
    LET r == updateStateWith(st, angle, ExtOk, FlexOk, 0, "flexed", RetOk)
    IN  IF r.state.currentAngle > Deg(extendedThreshold)
          THEN [state |-> [r.state EXCEPT !.counter = @ + 1], ret |-> TRUE]
          ELSE r

\* the stage is not moved to 'flexed' when the rep is counted
updateState_stageNotSet(st, angle) ==
    updateStateWith(st, angle, ExtOk, FlexOk, 1, "extended", RetOk)

\* the two thresholds are swapped
SwappedExt(sm, stg) == sm > Deg(flexedThreshold)
SwappedFlex(sm, stg) == sm < Deg(extendedThreshold) /\ stg = "extended"
updateState_swapped(st, angle) ==
    updateStateWith(st, angle, SwappedExt, SwappedFlex, 1, "flexed", RetOk)

\* the guard on the stage is missing
NoGuardFlex(sm, stg) == sm < Deg(flexedThreshold)
updateState_noStageGuard(st, angle) ==
    updateStateWith(st, angle, ExtOk, NoGuardFlex, 1, "flexed", RetOk)

\* the return value is read off the stage
RetStage(s2, prev) == s2.stage = "flexed"
updateState_retStage(st, angle) ==
    updateStateWith(st, angle, ExtOk, FlexOk, 1, "flexed", RetStage)

\* 'extended' is not entered from 'flexed'
NoReextend(sm, stg) == sm > Deg(extendedThreshold) /\ stg # "flexed"
updateState_noReextend(st, angle) ==
    updateStateWith(st, angle, NoReextend, FlexOk, 1, "flexed", RetOk)

\* the guard accepts every stage but 'flexed'
UnsetFlex(sm, stg) == sm < Deg(flexedThreshold) /\ stg # "flexed"
updateState_unsetCounts(st, angle) ==
    updateStateWith(st, angle, ExtOk, UnsetFlex, 1, "flexed", RetOk)

\* the counter is stepped the wrong way
updateState_decrement(st, angle) ==
    updateStateWith(st, angle, ExtOk, FlexOk, -1, "flexed", RetOk)

\* currentAngle keeps the raw angle instead of the smoothed one
updateState_rawCurrent(st, angle) ==
    LET r == updateStateWith(st, angle, ExtOk, FlexOk, 1, "flexed", RetOk)
    IN  [r EXCEPT !.state.currentAngle = Deg(angle)]

\* the stage is cleared when neither branch is taken
updateState_clearInBand(st, angle) ==
    LET r == updateStateWith(st, angle, ExtOk, FlexOk, 1, "flexed", RetOk)
    IN  IF r.state.stage = st.stage /\ r.state.counter = st.counter
             /\ ~ExtOk(r.state.currentAngle, st.stage)
          THEN [r EXCEPT !.state.stage = UNSET]
          ELSE r

\* the rep is counted on the way back to 'extended'
updateState_countOnReturn(st, angle) ==
    LET r == updateStateWith(st, angle, ExtOk, FlexOk, 0, "flexed", RetOk)
    IN  IF st.stage = "flexed" /\ r.state.stage = "extended"
          THEN [state |-> [r.state EXCEPT !.counter = @ + 1], ret |-> TRUE]
          ELSE r

\* ExerciseTracker.updateState, exerciseTracker.py:45-71
updateState(st, angle) ==
    LET history == smoothAngles(st.angleHistory, angle, maxHistoryLength)
        smoothedAngle == Mean(history)
        previousCounter == st.counter
        s1 == [st EXCEPT !.angleHistory = history,
                         !.currentAngle = smoothedAngle]
        s2 == IF smoothedAngle > Deg(extendedThreshold)
                THEN [s1 EXCEPT !.stage = "extended"]
              ELSE IF smoothedAngle < Deg(flexedThreshold)
                      /\ s1.stage = "extended"
                THEN [s1 EXCEPT !.stage = "flexed", !.counter = @ + 1]
              ELSE s1
    IN  [state |-> s2, ret |-> s2.counter > previousCounter]

\* the history survives the reset
resetCounter_keepHistory(st) ==
    [st EXCEPT !.counter = 0, !.stage = UNSET]

\* the reset also clears currentAngle
resetCounter_clearAngle(st) ==
    [st EXCEPT !.counter = 0, !.stage = UNSET, !.angleHistory = <<>>,
               !.currentAngle = Deg(0)]

\* resetCounter that zeroes the counter and leaves the stage
resetCounter_keepStage(st) ==
    [st EXCEPT !.counter = 0, !.angleHistory = <<>>]

\* ExerciseTracker.resetCounter, exerciseTracker.py:73-79
resetCounter(st) ==
    [st EXCEPT !.counter = 0, !.stage = UNSET, !.angleHistory = <<>>]

\* ExerciseTracker.getStats, exerciseTracker.py:81-91
getStats(st) ==
    [exerciseName |-> "Knee Flexion",
     counter |-> st.counter,
     stage |-> IF st.stage # UNSET THEN st.stage ELSE "READY",
     currentAngle |-> st.currentAngle,
     averageAngle |-> IF st.angleHistory # <<>>
                        THEN (SumSeq(st.angleHistory) * Scale)
                                 \div Len(st.angleHistory)
                        ELSE Deg(0),
     extendedThreshold |-> Deg(extendedThreshold),
     flexedThreshold |-> Deg(flexedThreshold)]

\* ExerciseTracker.getDisplayStage, exerciseTracker.py:93-95
getDisplayStage(st) ==
    IF st.stage # UNSET THEN Upper(st.stage) ELSE "READY"

----------------------------------------------------------------------------
\* The steps of the program

\* What a captured frame yields: no pose, a pose without a landmark triple,
\* or a triple whose joint angle is `angle'.
Frames ==
    {[kind |-> "noPose"], [kind |-> "noTriple"]}
      \cup {[kind |-> "triple", angle |-> a] : a \in Angles}

Keys == {"r", "s", "none"}

\* The raw angle fed last, if the history still holds it
SameRun(a) == angleHistory # <<>> /\ angleHistory[Len(angleHistory)] = a

SetState(st) ==
    /\ counter' = st.counter
    /\ stage' = st.stage
    /\ angleHistory' = st.angleHistory
    /\ currentAngle' = st.currentAngle

Init ==
    /\ counter = ExerciseState.counter
    /\ stage = ExerciseState.stage
    /\ angleHistory = ExerciseState.angleHistory
    /\ currentAngle = ExerciseState.currentAngle
    /\ frame = [kind |-> "none"]
    /\ calls = <<>>
    /\ ret = NoValue
    /\ stats = NoValue
    /\ display = NoValue
    /\ runs = 0
    /\ extSinceInc = FALSE
    /\ extSinceReset = FALSE
    /\ fed = <<>>
    /\ scenario = Idle
    /\ smooth = Idle
    /\ geom = Idle
    /\ lmk = Idle
    /\ trackerConfig = KNEE_FLEXION

\* processFrame when the frame yields angle `a': updateState, then getStats
FrameWithAngle(a) ==
    LET r == updateState(State, a)
        isExt == r.state.currentAngle > Deg(extendedThreshold)
        isInc == r.state.counter > counter
    IN  /\ SameRun(a) \/ runs < MaxRuns
        /\ runs' = IF SameRun(a) THEN runs ELSE runs + 1
        /\ SetState(r.state)
        /\ ret' = r.ret
        /\ calls' = <<"updateState", "getStats">>
        /\ stats' = getStats(r.state)
        /\ extSinceInc' = IF isInc THEN FALSE ELSE (extSinceInc \/ isExt)
        /\ extSinceReset' = (extSinceReset \/ isExt)

\* a missing triple is fed as the angle of the previous sample
ProcessFrame_updateOnMissing(f) ==
    /\ UNCHANGED auxVars
    /\ frame' = f
    /\ display' = NoValue
    /\ CASE f.kind = "noPose" ->
              /\ calls' = <<>>
              /\ ret' = NoValue
              /\ stats' = NoValue
              /\ UNCHANGED <<counter, stage, angleHistory, currentAngle,
                             runs, extSinceInc, extSinceReset>>
         [] f.kind = "noTriple" ->
              IF angleHistory = <<>>
                THEN /\ calls' = <<"getStats">>
                     /\ ret' = NoValue
                     /\ stats' = getStats(State)
                     /\ UNCHANGED <<counter, stage, angleHistory,
                                    currentAngle, runs, extSinceInc,
                                    extSinceReset>>
                ELSE FrameWithAngle(angleHistory[Len(angleHistory)])
         [] f.kind = "triple" -> FrameWithAngle(f.angle)

\* ExerciseApp.processFrame, main.py:73-111
ProcessFrame(f) ==
    /\ UNCHANGED auxVars
    /\ frame' = f
    /\ display' = NoValue
    /\ CASE f.kind = "noPose" ->
              /\ calls' = <<>>
              /\ ret' = NoValue
              /\ stats' = NoValue
              /\ UNCHANGED <<counter, stage, angleHistory, currentAngle,
                             runs, extSinceInc, extSinceReset>>
         [] f.kind = "noTriple" ->
              /\ calls' = <<"getStats">>
              /\ ret' = NoValue
              /\ stats' = getStats(State)
              /\ UNCHANGED <<counter, stage, angleHistory, currentAngle,
                             runs, extSinceInc, extSinceReset>>
         [] f.kind = "triple" -> FrameWithAngle(f.angle)

\* ExerciseApp.handleKeyPress, main.py:113-133
HandleKeyPress(key) ==
    /\ UNCHANGED auxVars
    /\ frame' = [kind |-> "key", key |-> key]
    /\ ret' = NoValue
    /\ display' = NoValue
    /\ UNCHANGED <<runs, extSinceInc>>
    /\ CASE key = "r" ->
              /\ SetState(resetCounter(State))
              /\ calls' = <<"resetCounter">>
              /\ stats' = NoValue
              /\ extSinceReset' = FALSE
         [] key = "s" ->
              /\ calls' = <<"getStats">>
              /\ stats' = getStats(State)
              /\ UNCHANGED <<counter, stage, angleHistory, currentAngle,
                             extSinceReset>>
         [] OTHER ->
              /\ calls' = <<>>
              /\ stats' = NoValue
              /\ UNCHANGED <<counter, stage, angleHistory, currentAngle,
                             extSinceReset>>

\* A call of ExerciseTracker.getDisplayStage by a client of the tracker
GetDisplayStage ==
    /\ UNCHANGED auxVars
    /\ frame' = [kind |-> "getDisplayStage"]
    /\ calls' = <<"getDisplayStage">>
    /\ display' = getDisplayStage(State)
    /\ ret' = NoValue
    /\ stats' = NoValue
    /\ UNCHANGED <<counter, stage, angleHistory, currentAngle,
                   runs, extSinceInc, extSinceReset>>

Next ==
    \/ \E f \in Frames : ProcessFrame(f)
    \/ \E key \in Keys : HandleKeyPress(key)
    \/ GetDisplayStage

Spec == Init /\ [][Next]_vars

TypeOK ==
    /\ counter \in Nat
    /\ stage \in Stages
    /\ angleHistory \in Seq(Angles)
    /\ Len(angleHistory) <= maxHistoryLength
    /\ runs \in 0..MaxRuns

----------------------------------------------------------------------------
\* The window of one tracker: updateState and resetCounter, with the list of
\* the samples passed since construction or the last reset

\* Bound of SpecWindow: samples passed between two resets
MaxFed == 12

WindowAngles == {100, 175}

WindowUpdate(a) ==
    /\ Len(fed) < MaxFed
    /\ SetState(updateState(State, a).state)
    /\ fed' = Append(fed, a)
    /\ UNCHANGED <<stepVars, scenario, smooth, geom, lmk, trackerConfig>>

WindowReset ==
    /\ fed # <<>>
    /\ SetState(resetCounter(State))
    /\ fed' = <<>>
    /\ UNCHANGED <<stepVars, scenario, smooth, geom, lmk, trackerConfig>>

NextWindow ==
    \/ \E a \in WindowAngles : WindowUpdate(a)
    \/ WindowReset

SpecWindow == Init /\ [][NextWindow]_vars

----------------------------------------------------------------------------
\* AngleCalculator.smoothAngles called repeatedly on a list its caller owns

\* Bounds of SpecSmooth: length of the list the caller supplies, and calls
MaxSupplied == 3
MaxCalls == 15

SmoothAngles == {0, 100}
Capacities == {1, 2, maxHistoryLength}

\* all sequences over S of length at most n
SeqsUpTo(S, n) == UNION {[1..k -> S] : k \in 0..n}

\* a fresh tracker and an idle frame loop
FreshTracker ==
    /\ counter = ExerciseState.counter
    /\ stage = ExerciseState.stage
    /\ angleHistory = ExerciseState.angleHistory
    /\ currentAngle = ExerciseState.currentAngle
    /\ frame = [kind |-> "none"]
    /\ calls = <<>>
    /\ ret = NoValue
    /\ stats = NoValue
    /\ display = NoValue
    /\ runs = 0
    /\ extSinceInc = FALSE
    /\ extSinceReset = FALSE

trackerVars == <<counter, stage, angleHistory, currentAngle>>

InitSmooth ==
    /\ FreshTracker
    /\ trackerConfig = KNEE_FLEXION
    /\ fed = <<>>
    /\ scenario = Idle
    /\ geom = Idle
    /\ lmk = Idle
    /\ \E h \in SeqsUpTo(SmoothAngles, MaxSupplied), c \in Capacities :
          smooth = [pc |-> "ready",
                    history |-> h,          \* angleHistory
                    maxHistory |-> c,
                    newAngle |-> 0,
                    ret |-> Deg(0),
                    count |-> 0,            \* calls made
                    fromEmpty |-> h = <<>>, \* the list supplied was empty
                    same |-> TRUE,          \* all samples passed are equal
                    lead0 |-> 0]            \* 0s passed before any other

\* one call smoothAngles(history, a, maxHistory), util.py:43-60
SmoothCall(a) ==
    /\ smooth.pc \in {"ready", "called"}
    /\ smooth.count < MaxCalls
    /\ LET history == smoothAngles(smooth.history, a, smooth.maxHistory)
       IN  smooth' = [smooth EXCEPT
                        !.pc = "called",
                        !.history = history,
                        !.newAngle = a,
                        !.ret = Mean(history),
                        !.count = @ + 1,
                        !.same = smooth.same
                                   /\ (smooth.count = 0 \/ a = smooth.newAngle),
                        !.lead0 = IF smooth.lead0 = smooth.count /\ a = 0
                                    THEN @ + 1 ELSE @]
    /\ UNCHANGED <<trackerVars, stepVars, fed, scenario, geom, lmk,
                   trackerConfig>>

NextSmooth == \E a \in SmoothAngles : SmoothCall(a)

SpecSmooth == InitSmooth /\ [][NextSmooth]_vars

----------------------------------------------------------------------------
\* The scripted session: samples near 175 until the smoothed angle is above
\* extendedThreshold, samples of 100 until it is below flexedThreshold, and
\* both once more; each phase may go on after its target is reached.

\* Bounds of SpecScenario: samples fed in one phase, and phases
MaxPhaseFeeds == 12
LastPhase == 4

\* samples near 175 in the odd phases, samples of 100 in the even ones
PhaseAngles(p) == IF p % 2 = 1 THEN {174, 175} ELSE {100}

\* the smoothed angle sm is where phase p wants it
PhaseTarget(p, sm) ==
    IF p % 2 = 1 THEN sm > Deg(extendedThreshold)
                 ELSE sm < Deg(flexedThreshold)

InitScenario ==
    /\ FreshTracker
    /\ trackerConfig = KNEE_FLEXION
    /\ fed = <<>>
    /\ smooth = Idle
    /\ geom = Idle
    /\ lmk = Idle
    /\ scenario = [pc |-> "run", phase |-> 1, n |-> 0, reached |-> FALSE]

\* updateState with a sample of the phase, then getStats
ScenarioFeed(a) ==
    /\ scenario.pc = "run"
    /\ scenario.n < MaxPhaseFeeds
    /\ a \in PhaseAngles(scenario.phase)
    /\ LET r == updateState(State, a)
       IN  /\ SetState(r.state)
           /\ ret' = r.ret
           /\ stats' = getStats(r.state)
           /\ calls' = <<"updateState", "getStats">>
           /\ scenario' = [scenario EXCEPT
                             !.n = @ + 1,
                             !.reached = PhaseTarget(scenario.phase,
                                                     r.state.currentAngle)]
    /\ UNCHANGED <<frame, display, runs, extSinceInc, extSinceReset,
                   fed, smooth, geom, lmk, trackerConfig>>

\* the next phase starts once the target of this one is reached
ScenarioTurn ==
    /\ scenario.pc = "run"
    /\ scenario.reached
    /\ scenario.phase < LastPhase
    /\ scenario' = [scenario EXCEPT !.phase = @ + 1, !.n = 0,
                                    !.reached = FALSE]
    /\ UNCHANGED <<trackerVars, stepVars, fed, smooth, geom, lmk,
                   trackerConfig>>

NextScenario ==
    \/ \E a \in {100, 174, 175} : ScenarioFeed(a)
    \/ ScenarioTurn

SpecScenario == InitScenario /\ [][NextScenario]_vars

----------------------------------------------------------------------------
\* AngleCalculator.calculateAngle on lattice points, whose rays lie at
\* multiples of 45 degrees, and the frame that feeds its value to the tracker

\* numpy.arctan2(dy, dx) in whole degrees, for dy, dx in {-1, 0, 1};
\* arctan2(0, 0) is 0 and raises nothing
Atan2Deg(dy, dx) ==
    CASE dy = 0 /\ dx >= 0 -> 0
      [] dy = 0 /\ dx < 0 -> 180
      [] dy > 0 /\ dx > 0 -> 45
      [] dy > 0 /\ dx = 0 -> 90
      [] dy > 0 /\ dx < 0 -> 135
      [] dy < 0 /\ dx > 0 -> -45
      [] dy < 0 /\ dx = 0 -> -90
      [] dy < 0 /\ dx < 0 -> -135

Abs(x) == IF x < 0 THEN -x ELSE x

\* AngleCalculator.calculateAngle, util.py:14-41, in whole degrees; a point
\* with fewer than two coordinates raises IndexError, which is caught
calculateAngle(pointA, pointB, pointC) ==
    IF Len(pointA) < 2 \/ Len(pointB) < 2 \/ Len(pointC) < 2
      THEN 0
      ELSE LET degrees == Atan2Deg(pointC[2] - pointB[2], pointC[1] - pointB[1])
                            - Atan2Deg(pointA[2] - pointB[2],
                                       pointA[1] - pointB[1])
               angle == Abs(degrees)
           IN  IF angle > 180 THEN 360 - angle ELSE angle

Offsets == {<<dx, dy>> : dx \in {-1, 0, 1}, dy \in {-1, 0, 1}}
Vertices == {<<x, y>> : x \in {0, 1}, y \in {0, 1}}

\* the triples of points: a vertex and two points next to it, or a triple
\* whose first point lacks a coordinate
Triples ==
    {[pointA |-> <<b[1] + oa[1], b[2] + oa[2]>>, pointB |-> b,
      pointC |-> <<b[1] + oc[1], b[2] + oc[2]>>] :
        b \in Vertices, oa \in Offsets, oc \in Offsets}
      \cup {[pointA |-> <<0>>, pointB |-> b, pointC |-> <<1, 0>>] :
              b \in Vertices}

InitGeom ==
    /\ FreshTracker
    /\ trackerConfig = KNEE_FLEXION
    /\ fed = <<>>
    /\ scenario = Idle
    /\ smooth = Idle
    /\ lmk = Idle
    /\ \E t \in Triples :
          geom = [pc |-> "ready", pointA |-> t.pointA, pointB |-> t.pointB,
                  pointC |-> t.pointC, angle |-> 0]

\* processFrame, main.py:94
GeomCall ==
    /\ geom.pc = "ready"
    /\ geom' = [geom EXCEPT
                  !.pc = "done",
                  !.angle = calculateAngle(geom.pointA, geom.pointB,
                                           geom.pointC)]
    /\ UNCHANGED <<trackerVars, stepVars, fed, scenario, smooth, lmk,
                   trackerConfig>>

\* processFrame, main.py:96
GeomFeed ==
    /\ geom.pc = "done"
    /\ geom' = [geom EXCEPT !.pc = "fed"]
    /\ SetState(updateState(State, geom.angle).state)
    /\ UNCHANGED <<stepVars, fed, scenario, smooth, lmk, trackerConfig>>

NextGeom == GeomCall \/ GeomFeed

SpecGeom == InitGeom /\ [][NextGeom]_vars

----------------------------------------------------------------------------
\* PoseDetector.extractLandmarks and getFallbackLandmarks.  A landmark list
\* is a function from 0..n-1 to points <<x, y>>; coordinates are multiples
\* of 40 units, so that every midpoint and every offset is a whole number.

\* mediapipe's PoseLandmark: the members the configurations can name
NOSE == 0
PoseBase(nm) ==
    CASE nm = "HIP" -> 23
      [] nm = "KNEE" -> 25
      [] nm = "ANKLE" -> 27
      [] nm = "HEEL" -> 29

\* getattr(PoseLandmark, f'{side}_{nm}') succeeds
HasMember(side, nm) ==
    side \in {"LEFT", "RIGHT"} /\ nm \in {"HIP", "KNEE", "ANKLE", "HEEL"}

\* getattr(PoseLandmark, f'{side}_{nm}').value
MemberValue(side, nm) == PoseBase(nm) + (IF side = "LEFT" THEN 0 ELSE 1)

\* landMarks[i] does not raise IndexError
InList(landMarks, i) == i \in DOMAIN landMarks

Mid(p, q) == <<(p[1] + q[1]) \div 2, (p[2] + q[2]) \div 2>>

NoLandmarks == [ok |-> FALSE, positions |-> <<>>]
Tuple(positions) == [ok |-> TRUE, positions |-> positions]

\* one pass of the loop of extractLandmarks raises nothing
Resolves(landMarks, side, nm) ==
    IF side = "BOTH"
      THEN /\ HasMember("LEFT", nm) /\ HasMember("RIGHT", nm)
           /\ InList(landMarks, MemberValue("LEFT", nm))
           /\ InList(landMarks, MemberValue("RIGHT", nm))
      ELSE /\ HasMember(side, nm)
           /\ InList(landMarks, MemberValue(side, nm))

\* the position one pass of the loop appends, poseDetector.py:69-81
Position(landMarks, side, nm) ==
    IF side = "BOTH"
      THEN Mid(landMarks[MemberValue("LEFT", nm)],
               landMarks[MemberValue("RIGHT", nm)])
      ELSE landMarks[MemberValue(side, nm)]

\* the positions of the names of `names' that are HIP, KNEE or ANKLE
RECURSIVE FallbackPositions(_, _, _, _)
FallbackPositions(names, hipP, kneeP, ankleP) ==
    IF names = <<>> THEN <<>>
    ELSE LET rest == FallbackPositions(Tail(names), hipP, kneeP, ankleP)
         IN  CASE Head(names) = "HIP" -> <<hipP>> \o rest
               [] Head(names) = "KNEE" -> <<kneeP>> \o rest
               [] Head(names) = "ANKLE" -> <<ankleP>> \o rest
               [] OTHER -> rest

\* PoseDetector.getFallbackLandmarks, poseDetector.py:90-170
getFallbackLandmarks(landmarks, config) ==
    IF ~(\A i \in {NOSE, 23, 24, 27, 28} : InList(landmarks, i))
      THEN NoLandmarks                      \* IndexError
    ELSE IF "KNEE" \in Range(config.landMarks)
            /\ config.side \notin {"LEFT", "RIGHT"}
      THEN NoLandmarks                      \* AttributeError: list has no x
    ELSE
      LET nose == landmarks[NOSE]
          leftHip == landmarks[23]
          rightHip == landmarks[24]
          leftAnkle == landmarks[27]
          rightAnkle == landmarks[28]
          hipCenter == Mid(leftHip, rightHip)
          squat == config.name = "Partial Squat"
          hip == IF config.side = "LEFT" THEN leftHip ELSE rightHip
          ankle == IF config.side = "LEFT" THEN leftAnkle ELSE rightAnkle
          forwardOffset == (3 * Abs(hip[2] - ankle[2])) \div 20
          kneeP == <<((hip[1] + ankle[1]) \div 2)
                        + (IF squat THEN forwardOffset ELSE 0),
                     (hip[2] + ankle[2]) \div 2>>
          hipP == <<hipCenter[1],
                    hipCenter[2]
                      + (IF squat THEN Abs(nose[2] - hipCenter[2]) \div 20
                                  ELSE 0)>>
          ankleP == IF config.side = "LEFT" THEN leftAnkle
                    ELSE Mid(leftAnkle, rightAnkle)
      IN  Tuple(FallbackPositions(config.landMarks, hipP, kneeP, ankleP))

\* PoseDetector.extractLandmarks, poseDetector.py:55-88
extractLandmarks(landMarks, exerciseConfig) ==
    IF \A i \in 1..Len(exerciseConfig.landMarks) :
          Resolves(landMarks, exerciseConfig.side, exerciseConfig.landMarks[i])
      THEN Tuple([i \in 1..Len(exerciseConfig.landMarks) |->
                    Position(landMarks, exerciseConfig.side,
                             exerciseConfig.landMarks[i])])
      ELSE getFallbackLandmarks(landMarks, exerciseConfig)

LandmarkNames == {"HIP", "KNEE", "ANKLE", "HEEL", "TOE"}
Sides == {"LEFT", "RIGHT", "BOTH"}
ConfigNames == {"Knee Flexion", "Partial Squat"}

\* lists of 0, 29 and 33 landmarks, in two poses
ListLengths == {0, 29, 33}
LandmarkLists ==
    {[i \in 0..(n - 1) |-> <<40 * i, 40 * ((i * p) % 5)>>] :
        n \in ListLengths, p \in {1, 2}}

\* three different names, in any order
NameTriples ==
    {t \in LandmarkNames \X LandmarkNames \X LandmarkNames :
        t[1] # t[2] /\ t[1] # t[3] /\ t[2] # t[3]}

ExerciseConfigs ==
    {[name |-> nm, landMarks |-> t, side |-> sd] :
        nm \in ConfigNames, sd \in Sides, t \in NameTriples}

InitLandmarks ==
    /\ FreshTracker
    /\ trackerConfig = KNEE_FLEXION
    /\ fed = <<>>
    /\ scenario = Idle
    /\ smooth = Idle
    /\ geom = Idle
    /\ \E l \in LandmarkLists, cfg \in ExerciseConfigs :
          lmk = [pc |-> "ready", landMarks |-> l, config |-> cfg,
                 result |-> NoLandmarks]

\* processFrame, main.py:90
ExtractCall ==
    /\ lmk.pc = "ready"
    /\ lmk' = [lmk EXCEPT !.pc = "done",
                          !.result = extractLandmarks(lmk.landMarks,
                                                      lmk.config)]
    /\ UNCHANGED <<trackerVars, stepVars, fed, scenario, smooth, geom,
                   trackerConfig>>

NextLandmarks == ExtractCall

SpecLandmarks == InitLandmarks /\ [][NextLandmarks]_vars

----------------------------------------------------------------------------
\* A tracker built with any pair of thresholds: ExerciseConfig, config.py:16-23,
\* does not check that extendedThreshold is above flexedThreshold

\* Bound of SpecConfig: samples passed between two resets
MaxConfigFed == 6

ConfigAngles == {0, 140, 175}
ThresholdValues == {flexedThreshold, 140, extendedThreshold}

\* every pair of thresholds: ordered, equal and misordered
ThresholdConfigs ==
    [extendedThreshold : ThresholdValues, flexedThreshold : ThresholdValues]

\* updateState whose second test is an `if', so that one call can take both
\* branches
updateStateUnder_bothBranches(cfg, st, angle) ==
    LET history == smoothAngles(st.angleHistory, angle, maxHistoryLength)
        smoothedAngle == Mean(history)
        previousCounter == st.counter
        s1 == [st EXCEPT !.angleHistory = history,
                         !.currentAngle = smoothedAngle]
        s2 == IF smoothedAngle > Deg(cfg.extendedThreshold)
                THEN [s1 EXCEPT !.stage = "extended"]
              ELSE s1
        s3 == IF smoothedAngle < Deg(cfg.flexedThreshold)
                   /\ s2.stage = "extended"
                THEN [s2 EXCEPT !.stage = "flexed", !.counter = @ + 1]
              ELSE s2
    IN  [state |-> s3, ret |-> s3.counter > previousCounter]

\* ExerciseTracker.updateState, exerciseTracker.py:45-71, of a tracker whose
\* self.config is cfg
updateStateUnder(cfg, st, angle) ==
    LET history == smoothAngles(st.angleHistory, angle, maxHistoryLength)
        smoothedAngle == Mean(history)
        previousCounter == st.counter
        s1 == [st EXCEPT !.angleHistory = history,
                         !.currentAngle = smoothedAngle]
        s2 == IF smoothedAngle > Deg(cfg.extendedThreshold)
                THEN [s1 EXCEPT !.stage = "extended"]
              ELSE IF smoothedAngle < Deg(cfg.flexedThreshold)
                      /\ s1.stage = "extended"
                THEN [s1 EXCEPT !.stage = "flexed", !.counter = @ + 1]
              ELSE s1
    IN  [state |-> s2, ret |-> s2.counter > previousCounter]

InitConfig ==
    /\ FreshTracker
    /\ fed = <<>>
    /\ scenario = Idle
    /\ smooth = Idle
    /\ geom = Idle
    /\ lmk = Idle
    /\ trackerConfig \in ThresholdConfigs

ConfigUpdate(a) ==
    /\ Len(fed) < MaxConfigFed
    /\ LET r == updateStateUnder(trackerConfig, State, a)
       IN  /\ SetState(r.state)
           /\ ret' = r.ret
    /\ calls' = <<"updateState">>
    /\ fed' = Append(fed, a)
    /\ UNCHANGED <<frame, stats, display, runs, extSinceInc, extSinceReset,
                   scenario, smooth, geom, lmk, trackerConfig>>

ConfigReset ==
    /\ fed # <<>>
    /\ SetState(resetCounter(State))
    /\ ret' = NoValue
    /\ calls' = <<"resetCounter">>
    /\ fed' = <<>>
    /\ UNCHANGED <<frame, stats, display, runs, extSinceInc, extSinceReset,
                   scenario, smooth, geom, lmk, trackerConfig>>

NextConfig ==
    \/ \E a \in ConfigAngles : ConfigUpdate(a)
    \/ ConfigReset

SpecConfig == InitConfig /\ [][NextConfig]_vars

----------------------------------------------------------------------------
\* Properties

\* the last step invoked method m of the tracker
Called(m) == m \in Range(calls)

InBand(a) == a > flexedThreshold /\ a < extendedThreshold
AllInBand(h) == \A i \in 1..Len(h) : InBand(h[i])

\* the last step was an updateState whose raw angle lies in the dead band
BandCall == frame.kind = "triple" /\ InBand(frame.angle) /\ Called("updateState")

\* C1: an updateState call leaves the counter or adds exactly 1 to it, and
\* the counter grows only in an updateState call whose smoothed angle is
\* below flexedThreshold while the stage was EXTENDED (FLEXED afterwards).
C1_IncrementOnlyOnFlex ==
    [][ /\ Called("updateState")' => counter' \in {counter, counter + 1}
        /\ counter' > counter =>
              /\ Called("updateState")'
              /\ currentAngle' < Deg(flexedThreshold)
              /\ stage = "extended"
              /\ stage' = "flexed" ]_vars

C1_Witness ==
    /\ Called("updateState")
    /\ counter = 1
    /\ stage = "flexed"
    /\ currentAngle < Deg(flexedThreshold)
    /\ extSinceInc = FALSE

\* C2: at most one rep per extended-to-flexed cycle: a call increments the
\* counter only if a call with smoothed angle above extendedThreshold came
\* since the previous increment, and of two consecutive calls with smoothed
\* angle below flexedThreshold the second never increments.
C2_OnePerCycle ==
    [][ /\ counter' > counter => extSinceInc
        /\ ( /\ Called("updateState") /\ currentAngle < Deg(flexedThreshold)
             /\ Called("updateState")' /\ currentAngle' < Deg(flexedThreshold) )
              => counter' = counter ]_vars

C2_Witness ==
    /\ Called("updateState")
    /\ ret = TRUE
    /\ counter = 2

\* C3 as stated: an updateState call whose raw angle lies strictly between
\* the thresholds changes neither counter nor stage, whatever the history.
C3_RawBandFreezes ==
    [][ BandCall' => (counter' = counter /\ stage' = stage) ]_vars

\* C3 amended: an updateState call whose raw angle lies strictly between the
\* thresholds changes neither counter nor stage when the history before the
\* call holds only such angles (or is empty).
C3_BandWindowFreezes ==
    [][ (BandCall' /\ AllInBand(angleHistory))
          => (counter' = counter /\ stage' = stage) ]_vars

C3_Witness ==
    /\ BandCall
    /\ Len(angleHistory) = maxHistoryLength
    /\ AllInBand(angleHistory)
    /\ angleHistory[1] # angleHistory[maxHistoryLength]
    /\ stage = "flexed"

\* C4: an updateState call whose smoothed angle is not above
\* extendedThreshold and is not (below flexedThreshold with stage EXTENDED)
\* leaves stage and counter as they were.
C4_DeadBand ==
    [][ ( /\ Called("updateState")'
          /\ ~(currentAngle' > Deg(extendedThreshold))
          /\ ~(currentAngle' < Deg(flexedThreshold) /\ stage = "extended") )
          => (stage' = stage /\ counter' = counter) ]_vars

C4_Witness ==
    /\ Called("updateState")
    /\ currentAngle < Deg(flexedThreshold)
    /\ stage = "flexed"
    /\ ret = FALSE

\* C5: updateState returns true exactly when the call raised the counter,
\* which is exactly when it moved the stage from EXTENDED to FLEXED.
C5_ReturnValue ==
    [][ Called("updateState")' =>
          /\ ret' = (counter' > counter)
          /\ ret' = (stage = "extended" /\ stage' = "flexed") ]_vars

C5_Witness ==
    /\ Called("updateState")
    /\ ret = TRUE
    /\ stats.counter >= 1

\* C6: an updateState call whose smoothed angle is above extendedThreshold
\* ends in stage EXTENDED, from any stage, with the counter unchanged.
C6_ExtendedAlways ==
    [][ (Called("updateState")' /\ currentAngle' > Deg(extendedThreshold))
          => (stage' = "extended" /\ counter' = counter) ]_vars

C6_Witness ==
    /\ Called("updateState")
    /\ currentAngle > Deg(extendedThreshold)
    /\ stage = "extended"
    /\ counter >= 1

\* C7: while no smoothed angle has exceeded extendedThreshold since the
\* construction or the last reset, counter is 0 and stage is UNSET.
C7_NoFreeCount ==
    ~extSinceReset => (counter = 0 /\ stage = UNSET)

C7_Witness ==
    /\ ~extSinceReset
    /\ Called("updateState")
    /\ Len(angleHistory) >= 2
    /\ currentAngle < Deg(flexedThreshold)

\* C8: resetCounter leaves counter 0, stage UNSET (READY for getStats and
\* getDisplayStage) and an empty history; the updateState that follows a
\* reset has a window made of its own sample only.
C8_Reset ==
    [][ /\ Called("resetCounter")' =>
              /\ counter' = 0
              /\ stage' = UNSET
              /\ angleHistory' = <<>>
              /\ getStats(State)'.stage = "READY"
              /\ getDisplayStage(State)' = "READY"
        /\ (runs > 0 /\ angleHistory = <<>> /\ Called("updateState")') =>
              /\ angleHistory' = <<frame'.angle>>
              /\ currentAngle' = Deg(frame'.angle) ]_vars

C8_Witness ==
    /\ Called("resetCounter")
    /\ runs >= 2
    /\ currentAngle < Deg(flexedThreshold)
    /\ ~extSinceInc

\* C9: a frame without a pose or without a landmark triple does not call
\* updateState and leaves counter, stage, currentAngle and angleHistory.
C9_SkippedFrame ==
    [][ frame'.kind \in {"noPose", "noTriple"} =>
          /\ ~Called("updateState")'
          /\ UNCHANGED <<counter, stage, currentAngle, angleHistory>> ]_vars

C9_Witness ==
    /\ frame.kind = "noTriple"
    /\ stage = "extended"
    /\ counter = 1
    /\ ~(currentAngle > Deg(extendedThreshold))

\* C10: counter is a natural number, and no step but resetCounter lowers it.
C10_CounterMonotone ==
    [][ /\ counter \in Nat
        /\ counter' \in Nat
        /\ ~Called("resetCounter")' => counter' >= counter ]_vars

C10_Witness ==
    /\ frame.kind = "getDisplayStage"
    /\ counter >= 2

Min(a, b) == IF a < b THEN a ELSE b

\* the last n elements of s
LastN(s, n) == SubSeq(s, Len(s) - n + 1, Len(s))

\* C11: the history never holds more than 10 samples, and it is the list of
\* the most recent min(n, 10) raw samples passed since construction or the
\* last reset, in arrival order.
C11_Window ==
    /\ Len(angleHistory) <= 10
    /\ angleHistory = LastN(fed, Min(Len(fed), 10))

C11_Witness ==
    /\ Len(fed) > maxHistoryLength + 1
    /\ Len(angleHistory) = maxHistoryLength
    /\ angleHistory[1] # angleHistory[2]
    /\ fed[1] # angleHistory[1]

C20_BoundedAfterCall ==
    smooth.pc = "called" =>
      /\ smooth.history[Len(smooth.history)] = smooth.newAngle
      /\ Len(smooth.history) <= smooth.maxHistory
      /\ smooth.ret * Len(smooth.history) = SumSeq(smooth.history) * Scale

\* C13 as stated: the stage that getStats reports is READY, EXTENDED or
\* FLEXED, is READY exactly when the stage is UNSET, and is the string that
\* getDisplayStage returns.
C13_StatsStage ==
    /\ getStats(State).stage \in {"READY", "EXTENDED", "FLEXED"}
    /\ (getStats(State).stage = "READY") = (stage = UNSET)
    /\ getStats(State).stage = getDisplayStage(State)

C18_UnsetOnlyAtStart ==
    [][ /\ (stage # UNSET /\ ~Called("resetCounter")') => stage' # UNSET
        /\ stage = UNSET => stage' \in {UNSET, "extended"} ]_vars

C18_Witness ==
    /\ stage = "extended"
    /\ counter = 0
    /\ Called("updateState")
    /\ ~(currentAngle > Deg(extendedThreshold))
    /\ runs >= 3

\* C19: resetCounter leaves currentAngle; getStats after the reset reports
\* that angle with averageAngle 0.0, and the name and the thresholds of the
\* configuration as before.
C19_ResetKeepsAngle ==
    [][ Called("resetCounter")' =>
          /\ currentAngle' = currentAngle
          /\ getStats(State)'.currentAngle = currentAngle
          /\ getStats(State)'.averageAngle = Deg(0)
          /\ getStats(State)'.exerciseName = getStats(State).exerciseName
          /\ getStats(State)'.extendedThreshold = Deg(extendedThreshold)
          /\ getStats(State)'.flexedThreshold = Deg(flexedThreshold) ]_vars

C19_Witness ==
    /\ Called("resetCounter")
    /\ currentAngle > Deg(extendedThreshold)
    /\ angleHistory = <<>>

\* C16: in the scripted session with thresholds 170 and 108, whenever the
\* target of a phase is reached the counter is 0, 1, 1, 2 and the stage
\* EXTENDED, FLEXED, EXTENDED, FLEXED in phases 1 to 4 (phase p: p div 2),
\* however many samples the phases take, and getStats reports counter 2 at
\* the end of phase 4.
C16_Scenario ==
    (scenario.pc = "run" /\ scenario.reached) =>
      /\ extendedThreshold = 170 /\ flexedThreshold = 108
      /\ counter = scenario.phase \div 2
      /\ stage = (IF scenario.phase % 2 = 1 THEN "extended" ELSE "flexed")
      /\ stats.counter = counter
      /\ scenario.phase = 4 => (stats.counter = 2 /\ stage = "flexed")

C16_Witness ==
    /\ scenario.pc = "run"
    /\ scenario.phase = 4
    /\ scenario.reached
    /\ scenario.n > maxHistoryLength
    /\ stats.counter = 2

\* C17 as stated: when pointA or pointC coincides with the vertex pointB,
\* calculateAngle returns 0.0 whatever the third point is, and 0.0 is the
\* angle passed to updateState.
C17_DegenerateIsZero ==
    ( /\ geom.pc \in {"done", "fed"}
      /\ Len(geom.pointA) = 2
      /\ (geom.pointA = geom.pointB \/ geom.pointC = geom.pointB) )
      => /\ geom.angle = 0
         /\ geom.pc = "fed" => angleHistory = <<0>>

\* C15 as stated: extractLandmarks returns the three points of the names of
\* the configuration, in order, each from the configured side (the
\* left/right midpoint for BOTH), or None as soon as one name cannot be
\* resolved; never fewer than three points, never estimated points.
C15_ThreeOrNone ==
    lmk.pc = "done" =>
      IF \A i \in 1..3 :
            Resolves(lmk.landMarks, lmk.config.side, lmk.config.landMarks[i])
        THEN /\ lmk.result.ok
             /\ Len(lmk.result.positions) = 3
             /\ \A i \in 1..3 :
                  lmk.result.positions[i]
                    = Position(lmk.landMarks, lmk.config.side,
                               lmk.config.landMarks[i])
        ELSE ~lmk.result.ok

\* C21: in every reachable state of the frame loop (frames with an angle,
\* skipped frames, the reset key, getStats and getDisplayStage in any order)
\* a tracker whose stage is 'flexed' has a counter of at least 1.
C21_FlexedHasCount == stage = "flexed" => counter >= 1

\* a frame is skipped while the tracker is flexed with its first count
C21_Witness ==
    /\ frame.kind = "noPose"
    /\ stage = "flexed"
    /\ counter = 1
    /\ runs = MaxRuns

\* C22: whatever the two thresholds of the configuration are, ordered, equal
\* or misordered, two updateState calls that follow each other with no
\* resetCounter between them never both return true.
C22_NoConsecutiveTrue ==
    [][ (Called("updateState") /\ Called("updateState")') => ~(ret /\ ret')
      ]_vars

\* under a configuration whose extendedThreshold is below its flexedThreshold
\* a call returns true for the second time since the reset
C22_Witness ==
    /\ trackerConfig.extendedThreshold < trackerConfig.flexedThreshold
    /\ Called("updateState")
    /\ ret
    /\ counter = 2

====
